---- MODULE Spec2Model ----
(***************************************************************************)
(* Model of maua's neural style transfer entry point                       *)
(* (maua/style/image.py: transfer and its loss closure) and of the         *)
(* frame-by-frame video upscaler (maua/super/video/frame_by_frame.py:      *)
(* main and upscale).                                                      *)
(*                                                                         *)
(* Both programs are single-threaded.  Each is a state machine whose       *)
(* position is a program counter (pc for transfer, vpc for the upscaler).  *)
(* Collaborators that live outside these two files (the loader, the        *)
(* plugin registries, the Parameterization, the Perceptor, the optimizer   *)
(* adapter, the super-resolution generator, the video writer) are modelled *)
(* by their interface contract, each with a call counter or a log so that  *)
(* the order and number of calls made by transfer/main/upscale is visible. *)
(***************************************************************************)
EXTENDS Naturals, Integers, Sequences, FiniteSets, TLC

\* ------------------------------------------------------------------ bounds
MaxIters == 2
MaxEvals == 2
MaxStyles == 2
MaxFiles == 2
MaxFrames == 3
MaxBatch == 2

\* ------------------------------------------------------------------ values
\* Python's None, for an image argument (images are sequences of tags).
None == <<>>

\* The state of a local name that no branch has assigned.
Unbound == <<"unbound">>

\* The names after "del content_img, style_imgs".
Deleted == <<"deleted">>

\* Names the registries know, and one they do not.
PARAMETERIZATIONS == {"rgb", "vqgan"}

PERCEPTORS == {"kbc-vgg19", "pgg-vgg19"}

OPTIMIZERS == {"LBFGS", "Adam"}

INIT_TYPES == {"content", "random", "init_img"}

UnknownName == "no-such-plugin"

\* ------------------------------------------------------------- transfer state
VARIABLES
    pc,                \* position in transfer
    error,             \* the exception that ended the run, or "none"
    content_img, style_imgs, init_img, init_type, match_hist,
    parameterization, perceptor, optimizer, n_iters, tv_weight,
    init_tensor,       \* the seed chosen by the initialization policy
    pastiche,          \* the Parameterization object
    target_embeddings,
    niter,             \* effective iteration count returned by load_optimizer
    evals,             \* closure invocations the adapter makes per step
    inner,             \* closure invocations made so far in the current step
    grad,              \* loss terms whose gradient is accumulated
    loss,              \* last loss returned by the closure
    trace,             \* calls made by the latest closure invocation, in order
    lossArgs,          \* every embeddings value handed to get_loss
    calls,             \* spies: how often each collaborator was called
    result             \* what transfer returned

\* ---------------------------------------------------------------- video state
VARIABLES
    vpc,               \* position in main / upscale
    video_files, model_name,
    idx,               \* index of the input main is at (1-based)
    fs,                \* the output directory: path -> frames in the file
    fs0,               \* the output directory as it was when main started
    existed,           \* per input reached: did its output exist at that moment
    opened,            \* per input: VideoReader objects opened on it
    shapeReads,        \* per input: reads of vr[0] for the frame shape
    decoded,           \* per input: frame indices decoded for upscaling, in order
    buf,               \* frames the upscaling generator holds, oldest first
    yielded,           \* per input: frames the upscaling generator yielded
    wrote,             \* per input: writer opens plus frames written
    len_vr             \* len(vr) of the open reader

varsT ==
    <<pc, error, content_img, style_imgs, init_img, init_type, match_hist,
      parameterization, perceptor, optimizer, n_iters, tv_weight, init_tensor,
      pastiche, target_embeddings, niter, evals, inner, grad, loss, trace,
      lossArgs, calls, result>>

varsV ==
    <<vpc, video_files, model_name, idx, fs, fs0, existed, opened, shapeReads,
      decoded, buf, yielded, wrote, len_vr>>

vars == <<varsT, varsV>>

\* ------------------------------------------------- collaborators of transfer
\* maua.ops.tensor.load_images: each given source becomes a tensor; an absent
\* init image stays None.
LoadOne(x) ==
    IF x = None THEN None ELSE Append(x, "loaded")

load_images(c, s, i) ==
    [content |-> LoadOne(c),
     styles |-> [k \in DOMAIN s |-> LoadOne(s[k])],
     init |-> LoadOne(i)]

\* Tensor.to(device), maua.ops.image.resample and match_histogram.
to_device(x) ==
    Append(x, "device")

resample(x, size) ==
    Append(x, size)

match_histogram(c, styles, mode) ==
    IF mode = "avg" THEN Append(c, "matched") ELSE c

\* The registries: a known name resolves, any other name is an error.
load_parameterization_ok(name) ==
    name \in PARAMETERIZATIONS

load_perceptor_ok(name) ==
    name \in PERCEPTORS

load_optimizer_ok(name) ==
    name \in OPTIMIZERS

\* Parameterization: built from a seed tensor (None: it initialises itself),
\* it owns a latent state and a running average of it.
NoPastiche ==
    [built |-> FALSE, seed |-> None, latent |-> 0, ema |-> 0]

SeedLatent(tensor) ==
    IF tensor = None THEN 0 ELSE Len(tensor)

NewParameterization(tensor) ==
    [built |-> TRUE, seed |-> tensor, latent |-> SeedLatent(tensor),
     ema |-> SeedLatent(tensor)]

EmaOf(p) ==
    (p.ema + p.latent) \div 2

decode(p) ==
    p.latent

decode_average(p) ==
    p.ema

\* Perceptor: the target embeddings are a function of the content and style
\* tensors; the loss is the set of terms it is made of.
NoEmbeddings ==
    [content |-> None, styles |-> <<>>]

get_target_embeddings(c, s) ==
    [content |-> c, styles |-> s]

PerceptorLoss(img, emb) ==
    {"content", "style"}

TvLoss(img) ==
    {"tv"}

\* The optimizer adapter moves the latent along the gradient after a closure
\* evaluation.
OptUpdate(p, g) ==
    [p EXCEPT !.latent = @ + 2 * Cardinality(g)]

\* The spies, all at zero.
NoCalls ==
    [load_images |-> 0, to |-> 0, get_target_embeddings |-> 0, step |-> 0,
     closure |-> 0, zero_grad |-> 0, update_ema |-> 0, pastiche |-> 0,
     get_loss |-> 0, backward |-> 0, pbar |-> 0, decode_average |-> 0]

Bump(c, f) ==
    [c EXCEPT ![f] = @ + 1]

\* --------------------------------------------------------------- the closure
\* The statements of the closure, each on the closure's environment e (the
\* names it captures from transfer) and each leaving its name in e.trace.
zero_grad(e) ==
    [e EXCEPT !.grad = {}, !.trace = Append(@, "zero_grad"),
              !.calls = Bump(@, "zero_grad")]

update_ema(e) ==
    [e EXCEPT !.pastiche.ema = EmaOf(e.pastiche),
              !.trace = Append(@, "update_ema"),
              !.calls = Bump(@, "update_ema")]

call_pastiche(e) ==
    [e EXCEPT !.img = decode(e.pastiche), !.trace = Append(@, "pastiche"),
              !.calls = Bump(@, "pastiche")]

get_loss(e) ==
    [e EXCEPT !.loss = PerceptorLoss(e.img, e.target_embeddings),
              !.lossArgs = @ \cup {e.target_embeddings},
              !.trace = Append(@, "get_loss"),
              !.calls = Bump(@, "get_loss")]

add_tv_loss(e) ==
    [e EXCEPT !.loss = @ \cup TvLoss(e.img), !.trace = Append(@, "tv_loss")]

backward(e) ==
    [e EXCEPT !.grad = @ \cup e.loss, !.trace = Append(@, "backward"),
              !.calls = Bump(@, "backward")]

pbar_update(e) ==
    [e EXCEPT !.trace = Append(@, "pbar.update"), !.calls = Bump(@, "pbar")]

\* Variants of the closure with one slip each.
\* pbar.update() indented under "if tv_weight > 0".
closure_progress_in_tv_branch(e) ==
    LET e1 == zero_grad([e EXCEPT !.trace = <<>>])
        e2 == update_ema(e1)
        e3 == call_pastiche(e2)
        e4 == get_loss(e3)
        e5 == IF e4.tv_weight > 0 THEN pbar_update(add_tv_loss(e4)) ELSE e4
        e6 == backward(e5)
    IN  e6

\* loss.backward() called before the total-variation term is added.
closure_backward_before_tv(e) ==
    LET e1 == zero_grad([e EXCEPT !.trace = <<>>])
        e2 == update_ema(e1)
        e3 == call_pastiche(e2)
        e4 == get_loss(e3)
        e5 == backward(e4)
        e6 == IF e5.tv_weight > 0 THEN add_tv_loss(e5) ELSE e5
        e7 == pbar_update(e6)
    IN  e7

\* The target embeddings computed again on every evaluation.
closure_recomputing_targets(e) ==
    LET e0 == [e EXCEPT !.trace = <<>>,
                        !.target_embeddings =
                            get_target_embeddings(<<"candidate">>, <<>>),
                        !.calls = Bump(@, "get_target_embeddings")]
        e1 == zero_grad(e0)
        e2 == update_ema(e1)
        e3 == call_pastiche(e2)
        e4 == get_loss(e3)
        e5 == IF e4.tv_weight > 0 THEN add_tv_loss(e4) ELSE e4
        e6 == backward(e5)
        e7 == pbar_update(e6)
    IN  e7

\* closure(): lines 100-112.
closure(e) ==
    LET e1 == zero_grad([e EXCEPT !.trace = <<>>])
        e2 == update_ema(e1)
        e3 == call_pastiche(e2)
        e4 == get_loss(e3)
        e5 == IF e4.tv_weight > 0 THEN add_tv_loss(e4) ELSE e4
        e6 == backward(e5)
        e7 == pbar_update(e6)
    IN  e7

\* ------------------------------------------------------ transfer, by statement
\* A policy that looks at init_type before the init image.
InitTensor_TypeFirst(init, type, content) ==
    IF type = "content" THEN content
    ELSE IF type = "random" THEN None
    ELSE IF init # None THEN init
    ELSE Unbound

\* The initialization policy, lines 76-81: no else branch.
InitTensor(init, type, content) ==
    IF init # None THEN init
    ELSE IF type = "content" THEN content
    ELSE IF type = "random" THEN None
    ELSE Unbound

\* A loop over the requested count.
LoopCount_Requested(requested, effective) ==
    requested

\* The loop bound of line 114.
LoopCount(requested, effective) ==
    effective

\* A return of the raw candidate, pastiche().
ReturnValue_Raw(p) ==
    decode(p)

\* What line 117 returns.
ReturnValue(p) ==
    decode_average(p)

StylePaths(n) ==
    [k \in 1..n |-> <<"style">>]

InitT ==
    /\ pc = "load_images"
    /\ error = "none"
    /\ content_img = <<"content">>
    /\ style_imgs \in {StylePaths(n) : n \in 1..MaxStyles}
    /\ init_img \in {None, <<"init">>}
    /\ init_type \in INIT_TYPES
    /\ match_hist \in {"avg", "False"}
    /\ parameterization \in {"rgb", UnknownName}
    /\ perceptor \in {"kbc-vgg19", UnknownName}
    /\ optimizer \in {"LBFGS", "Adam", UnknownName}
    /\ n_iters \in 1..MaxIters
    /\ tv_weight \in {0, 100}
    /\ init_tensor = Unbound
    /\ pastiche = NoPastiche
    /\ target_embeddings = NoEmbeddings
    /\ niter = 0
    /\ evals = 1
    /\ inner = 0
    /\ grad = {}
    /\ loss = {}
    /\ trace = <<>>
    /\ lossArgs = {}
    /\ calls = NoCalls
    /\ result = -1

Raise(e) ==
    /\ pc' = "raised"
    /\ error' = e

\* Line 70.
T_LoadImages ==
    /\ pc = "load_images"
    /\ LET r == load_images(content_img, style_imgs, init_img)
       IN  /\ content_img' = r.content
           /\ style_imgs' = r.styles
           /\ init_img' = r.init
    /\ calls' = Bump(calls, "load_images")
    /\ pc' = "resample"
    /\ UNCHANGED <<error, init_type, match_hist, parameterization, perceptor,
                   optimizer, n_iters, tv_weight, init_tensor, pastiche,
                   target_embeddings, niter, evals, inner, grad, loss, trace,
                   lossArgs, result>>
    /\ UNCHANGED varsV

\* Lines 72-74.
T_Resample ==
    /\ pc = "resample"
    /\ LET c == resample(to_device(content_img), "size")
           s == [k \in DOMAIN style_imgs |->
                    resample(to_device(style_imgs[k]), "size*style_scale")]
       IN  /\ content_img' = match_histogram(c, s, match_hist)
           /\ style_imgs' = s
    /\ calls' = [calls EXCEPT !.to = @ + 1 + Len(style_imgs)]
    /\ pc' = "init"
    /\ UNCHANGED <<error, init_img, init_type, match_hist, parameterization,
                   perceptor, optimizer, n_iters, tv_weight, init_tensor,
                   pastiche, target_embeddings, niter, evals, inner, grad,
                   loss, trace, lossArgs, result>>
    /\ UNCHANGED varsV

\* Lines 76-81.
T_InitPolicy ==
    /\ pc = "init"
    /\ init_tensor' = InitTensor(init_img, init_type, content_img)
    /\ pc' = "parameterization"
    /\ UNCHANGED <<error, content_img, style_imgs, init_img, init_type,
                   match_hist, parameterization, perceptor, optimizer, n_iters,
                   tv_weight, pastiche, target_embeddings, niter, evals, inner,
                   grad, loss, trace, lossArgs, calls, result>>
    /\ UNCHANGED varsV

\* Lines 83-85.  The callee load_parameterization(parameterization) is
\* evaluated first, then the arguments (reading init_tensor), then the
\* constructor runs and the object is moved to the device.
T_Parameterization ==
    /\ pc = "parameterization"
    /\ IF ~load_parameterization_ok(parameterization)
         THEN Raise("ConfigurationError") /\ UNCHANGED <<pastiche, calls>>
       ELSE IF init_tensor = Unbound
         THEN Raise("UnboundLocalError") /\ UNCHANGED <<pastiche, calls>>
       ELSE /\ pastiche' = NewParameterization(init_tensor)
            /\ calls' = Bump(calls, "to")
            /\ pc' = "perceptor"
            /\ UNCHANGED error
    /\ UNCHANGED <<content_img, style_imgs, init_img, init_type, match_hist,
                   parameterization, perceptor, optimizer, n_iters, tv_weight,
                   init_tensor, target_embeddings, niter, evals, inner, grad,
                   loss, trace, lossArgs, result>>
    /\ UNCHANGED varsV

\* Lines 87-89.
T_Perceptor ==
    /\ pc = "perceptor"
    /\ IF ~load_perceptor_ok(perceptor)
         THEN Raise("ConfigurationError") /\ UNCHANGED calls
       ELSE /\ calls' = Bump(calls, "to")
            /\ pc' = "target_embeddings"
            /\ UNCHANGED error
    /\ UNCHANGED <<content_img, style_imgs, init_img, init_type, match_hist,
                   parameterization, perceptor, optimizer, n_iters, tv_weight,
                   init_tensor, pastiche, target_embeddings, niter, evals,
                   inner, grad, loss, trace, lossArgs, result>>
    /\ UNCHANGED varsV

\* Line 90.
T_TargetEmbeddings ==
    /\ pc = "target_embeddings"
    /\ target_embeddings' = get_target_embeddings(content_img, style_imgs)
    /\ calls' = Bump(calls, "get_target_embeddings")
    /\ pc' = "release"
    /\ UNCHANGED <<error, content_img, style_imgs, init_img, init_type,
                   match_hist, parameterization, perceptor, optimizer, n_iters,
                   tv_weight, init_tensor, pastiche, niter, evals, inner, grad,
                   loss, trace, lossArgs, result>>
    /\ UNCHANGED varsV

\* Lines 92-94.
T_Release ==
    /\ pc = "release"
    /\ content_img' = Deleted
    /\ style_imgs' = <<>>
    /\ pc' = "load_optimizer"
    /\ UNCHANGED <<error, init_img, init_type, match_hist, parameterization,
                   perceptor, optimizer, n_iters, tv_weight, init_tensor,
                   pastiche, target_embeddings, niter, evals, inner, grad,
                   loss, trace, lossArgs, calls, result>>
    /\ UNCHANGED varsV

\* Line 98.  The factory returns the adapter and an effective iteration
\* count; the adapter evaluates the closure `evals` times in each step.
T_LoadOptimizer ==
    /\ pc = "load_optimizer"
    /\ IF ~load_optimizer_ok(optimizer)
         THEN Raise("ConfigurationError") /\ UNCHANGED <<niter, evals>>
       ELSE /\ niter' \in 0..MaxIters
            /\ evals' \in 1..MaxEvals
            /\ pc' = "loop"
            /\ UNCHANGED error
    /\ UNCHANGED <<content_img, style_imgs, init_img, init_type, match_hist,
                   parameterization, perceptor, optimizer, n_iters, tv_weight,
                   init_tensor, pastiche, target_embeddings, inner, grad, loss,
                   trace, lossArgs, calls, result>>
    /\ UNCHANGED varsV

\* Lines 114-115: one more pass of the for loop calls opt.step(closure).
T_OptStep ==
    /\ pc = "loop"
    /\ calls.step < LoopCount(n_iters, niter)
    /\ calls' = Bump(calls, "step")
    /\ inner' = 0
    /\ pc' = "step"
    /\ UNCHANGED <<error, content_img, style_imgs, init_img, init_type,
                   match_hist, parameterization, perceptor, optimizer, n_iters,
                   tv_weight, init_tensor, pastiche, target_embeddings, niter,
                   evals, grad, loss, trace, lossArgs, result>>
    /\ UNCHANGED varsV

\* Inside opt.step: the adapter evaluates the closure (lines 100-112) and
\* updates the parameters from the gradient it left.
T_Closure ==
    /\ pc = "step"
    /\ inner < evals
    /\ LET e == closure([grad |-> grad, pastiche |-> pastiche, img |-> 0,
                         loss |-> loss, trace |-> trace, lossArgs |-> lossArgs,
                         calls |-> Bump(calls, "closure"),
                         target_embeddings |-> target_embeddings,
                         tv_weight |-> tv_weight])
       IN  /\ grad' = e.grad
           /\ loss' = e.loss
           /\ trace' = e.trace
           /\ lossArgs' = e.lossArgs
           /\ calls' = e.calls
           /\ target_embeddings' = e.target_embeddings
           /\ pastiche' = OptUpdate(e.pastiche, e.grad)
    /\ inner' = inner + 1
    /\ UNCHANGED <<pc, error, content_img, style_imgs, init_img, init_type,
                   match_hist, parameterization, perceptor, optimizer, n_iters,
                   tv_weight, init_tensor, niter, evals, result>>
    /\ UNCHANGED varsV

\* opt.step returns to the for loop.
T_StepReturn ==
    /\ pc = "step"
    /\ inner = evals
    /\ pc' = "loop"
    /\ UNCHANGED <<error, content_img, style_imgs, init_img, init_type,
                   match_hist, parameterization, perceptor, optimizer, n_iters,
                   tv_weight, init_tensor, pastiche, target_embeddings, niter,
                   evals, inner, grad, loss, trace, lossArgs, calls, result>>
    /\ UNCHANGED varsV

\* Line 117, reached when range(niter) is exhausted.
T_Return ==
    /\ pc = "loop"
    /\ ~(calls.step < LoopCount(n_iters, niter))
    /\ result' = ReturnValue(pastiche)
    /\ calls' = Bump(calls, "decode_average")
    /\ pc' = "done"
    /\ UNCHANGED <<error, content_img, style_imgs, init_img, init_type,
                   match_hist, parameterization, perceptor, optimizer, n_iters,
                   tv_weight, init_tensor, pastiche, target_embeddings, niter,
                   evals, inner, grad, loss, trace, lossArgs>>
    /\ UNCHANGED varsV

NextT ==
    \/ T_LoadImages
    \/ T_Resample
    \/ T_InitPolicy
    \/ T_Parameterization
    \/ T_Perceptor
    \/ T_TargetEmbeddings
    \/ T_Release
    \/ T_LoadOptimizer
    \/ T_OptStep
    \/ T_Closure
    \/ T_StepReturn
    \/ T_Return


\* ------------------------------------------------------ the video upscaler
\* A video file is <<directory, stem>>; Path(video_file).stem keeps the stem.
VIDEO_FILES == {<<"a", "clip">>, <<"b", "clip">>, <<"a", "other">>}

MODEL_NAMES == {"latent-diffusion", "RealESRGAN"}

out_dir == "output/"

Stem(video_file) ==
    video_file[2]

\* f"{out_dir}/{Path(video_file).stem}_{model_name}.mp4", lines 20 and 32.
OutFile(dir, video_file, name) ==
    <<dir, Stem(video_file), name>>

OUT_FILES == {OutFile(out_dir, f, m) : f \in VIDEO_FILES, m \in MODEL_NAMES}

\* What a file that was there before the run holds.
OldFrames == <<0, 0>>

\* A main without the check.
ShouldSkip_Never(out_file, files) ==
    FALSE

\* os.path.exists(out_file), line 33.
ShouldSkip(out_file, files) ==
    out_file \in DOMAIN files

\* range(1, len(vr)): frame 0, already read for its shape, left out.
FrameRange_FromOne(n) ==
    [k \in 1..(n - 1) |-> k]

\* The indices the generator expression of line 22 decodes, in the order it
\* decodes them: range(len(vr)).
FrameRange(n) ==
    [k \in 1..n |-> k - 1]

\* maua.ops.video.VideoWriter: opening it creates the file, write appends.
WriterOpen(files, out_file) ==
    [p \in DOMAIN files \cup {out_file} |-> IF p = out_file THEN <<>> ELSE files[p]]

WriterWrite(files, out_file, frame) ==
    [files EXCEPT ![out_file] = Append(@, frame)]

SeqsUpTo(S, n) ==
    UNION {[1..k -> S] : k \in 1..n}

InitV ==
    /\ vpc = "main"
    /\ video_files \in SeqsUpTo(VIDEO_FILES, MaxFiles)
    /\ model_name \in MODEL_NAMES
    /\ idx = 1
    /\ \E D \in SUBSET OUT_FILES : fs = [p \in D |-> OldFrames]
    /\ fs0 = fs
    /\ existed = <<>>
    /\ opened = [i \in DOMAIN video_files |-> 0]
    /\ shapeReads = [i \in DOMAIN video_files |-> 0]
    /\ decoded = [i \in DOMAIN video_files |-> <<>>]
    /\ buf = <<>>
    /\ yielded = [i \in DOMAIN video_files |-> <<>>]
    /\ wrote = [i \in DOMAIN video_files |-> 0]
    /\ len_vr = [i \in DOMAIN video_files |-> 0]

\* Lines 30-35: the output of the input main is at exists, so main goes on
\* to the next input.
V_Skip ==
    /\ vpc = "main"
    /\ idx <= Len(video_files)
    /\ LET out_file == OutFile(out_dir, video_files[idx], model_name)
       IN  /\ ShouldSkip(out_file, fs)
           /\ existed' = Append(existed, out_file \in DOMAIN fs)
    /\ idx' = idx + 1
    /\ UNCHANGED <<vpc, video_files, model_name, fs, fs0, opened, shapeReads,
                   decoded, buf, yielded, wrote, len_vr>>
    /\ UNCHANGED varsT

\* Lines 30-37 and 16-22: main calls upscale, which opens the reader, reads
\* the frame rate and the shape of vr[0], opens the writer and creates the
\* frame generator (nothing is decoded for it yet).
V_Upscale ==
    /\ vpc = "main"
    /\ idx <= Len(video_files)
    /\ LET out_file == OutFile(out_dir, video_files[idx], model_name)
       IN  /\ ~ShouldSkip(out_file, fs)
           /\ existed' = Append(existed, out_file \in DOMAIN fs)
           /\ fs' = WriterOpen(fs, out_file)
    /\ opened' = [opened EXCEPT ![idx] = @ + 1]
    /\ shapeReads' = [shapeReads EXCEPT ![idx] = @ + 1]
    /\ \E n \in 1..MaxFrames : len_vr' = [len_vr EXCEPT ![idx] = n]
    /\ wrote' = [wrote EXCEPT ![idx] = @ + 1]
    /\ buf' = <<>>
    /\ vpc' = "frames"
    /\ UNCHANGED <<video_files, model_name, idx, fs0, decoded, yielded>>
    /\ UNCHANGED varsT

\* Line 22-23: the upscaling generator asks for its next input frame, which
\* decodes it; it may hold up to MaxBatch frames before it yields.
V_Pull ==
    /\ vpc = "frames"
    /\ Len(decoded[idx]) < Len(FrameRange(len_vr[idx]))
    /\ Len(buf) < MaxBatch
    /\ LET i == FrameRange(len_vr[idx])[Len(decoded[idx]) + 1]
       IN  /\ decoded' = [decoded EXCEPT ![idx] = Append(@, i)]
           /\ buf' = Append(buf, i)
    /\ UNCHANGED <<vpc, video_files, model_name, idx, fs, fs0, existed, opened,
                   shapeReads, yielded, wrote, len_vr>>
    /\ UNCHANGED varsT

\* Lines 23-24: the generator yields its oldest frame upscaled and the loop
\* body writes it.
V_Write ==
    /\ vpc = "frames"
    /\ buf # <<>>
    /\ LET frame == Head(buf)
           out_file == OutFile(out_dir, video_files[idx], model_name)
       IN  /\ yielded' = [yielded EXCEPT ![idx] = Append(@, frame)]
           /\ fs' = WriterWrite(fs, out_file, frame)
    /\ wrote' = [wrote EXCEPT ![idx] = @ + 1]
    /\ buf' = Tail(buf)
    /\ UNCHANGED <<vpc, video_files, model_name, idx, fs0, existed, opened,
                   shapeReads, decoded, len_vr>>
    /\ UNCHANGED varsT

\* Lines 23-26 and 30: the generator is exhausted, the writer closes, upscale
\* returns and main goes on to the next input.
V_Close ==
    /\ vpc = "frames"
    /\ ~(Len(decoded[idx]) < Len(FrameRange(len_vr[idx])))
    /\ buf = <<>>
    /\ idx' = idx + 1
    /\ vpc' = "main"
    /\ UNCHANGED <<video_files, model_name, fs, fs0, existed, opened,
                   shapeReads, decoded, buf, yielded, wrote, len_vr>>
    /\ UNCHANGED varsT

\* Line 30: no input is left.
V_Done ==
    /\ vpc = "main"
    /\ idx > Len(video_files)
    /\ vpc' = "done"
    /\ UNCHANGED <<video_files, model_name, idx, fs, fs0, existed, opened,
                   shapeReads, decoded, buf, yielded, wrote, len_vr>>
    /\ UNCHANGED varsT

NextV ==
    \/ V_Skip
    \/ V_Upscale
    \/ V_Pull
    \/ V_Write
    \/ V_Close
    \/ V_Done

\* ---------------------------------------------------------- specifications
\* The program that is not running stays as it is.
IdleT ==
    /\ pc = "idle"
    /\ error = "none"
    /\ content_img = None
    /\ style_imgs = <<>>
    /\ init_img = None
    /\ init_type = "content"
    /\ match_hist = "avg"
    /\ parameterization = "rgb"
    /\ perceptor = "kbc-vgg19"
    /\ optimizer = "LBFGS"
    /\ n_iters = 0
    /\ tv_weight = 0
    /\ init_tensor = Unbound
    /\ pastiche = NoPastiche
    /\ target_embeddings = NoEmbeddings
    /\ niter = 0
    /\ evals = 1
    /\ inner = 0
    /\ grad = {}
    /\ loss = {}
    /\ trace = <<>>
    /\ lossArgs = {}
    /\ calls = NoCalls
    /\ result = -1

IdleV ==
    /\ vpc = "idle"
    /\ video_files = <<>>
    /\ model_name = "latent-diffusion"
    /\ idx = 1
    /\ fs = <<>>
    /\ fs0 = <<>>
    /\ existed = <<>>
    /\ opened = <<>>
    /\ shapeReads = <<>>
    /\ decoded = <<>>
    /\ buf = <<>>
    /\ yielded = <<>>
    /\ wrote = <<>>
    /\ len_vr = <<>>

Init ==
    InitT /\ IdleV

Next ==
    NextT

\* One run of transfer, from every configuration.
Spec ==
    Init /\ [][Next]_vars

VideoInit ==
    IdleT /\ InitV

VideoNext ==
    NextV

\* One run of the video upscaler's main, from every argument list and
\* every content of the output directory.
VideoSpec ==
    VideoInit /\ [][VideoNext]_vars


\* ------------------------------------------------------------------ claims
\* C1: an unknown parameterization, perceptor or optimizer name raises
\* ConfigurationError before any image is loaded: no load_images call and no
\* .to(device) call precedes the failure.
C1_UnknownNameFailsBeforeLoading ==
    error = "ConfigurationError" => calls.load_images = 0 /\ calls.to = 0

\* C2: whenever an init image is supplied, the seed the Parameterization is
\* constructed with is that init image, whatever init_type is; the content
\* image or None is the seed only when no init image is supplied.
C2_InitImageWins ==
    pastiche.built =>
        /\ init_img # None => pastiche.seed = init_img
        /\ (init_img = None /\ init_type = "random") => pastiche.seed = None
        /\ (init_img = None /\ init_type = "content") =>
              /\ pastiche.seed # None
              /\ Head(pastiche.seed) = "content"
              /\ pc = "perceptor" => pastiche.seed = content_img
        /\ init_img = None => init_type \in {"random", "content"}

C2_Witness ==
    /\ pastiche.built
    /\ init_type = "random"
    /\ init_img = <<"init", "loaded">>
    /\ pastiche.seed = <<"init", "loaded">>

\* C3: for every init_type in {content, random, init_img}, with or without
\* an init image, a branch of the policy is taken, so the seed is defined
\* (init image, content image or None) when the Parameterization is built.
C3_SeedAlwaysDefined ==
    /\ pc = "parameterization" => init_tensor \in {init_img, content_img, None}
    /\ error # "UnboundLocalError"

\* C4: the number of opt.step calls equals the effective iteration count
\* load_optimizer returned, not n_iters; the loop ends exactly when that
\* count is used up.
C4_StepsEqualEffective ==
    /\ pc \in {"loop", "step", "done"} => calls.step <= niter
    /\ pc = "step" => calls.step >= 1
    /\ pc = "done" => calls.step = niter

C4_Witness ==
    /\ pc = "done"
    /\ niter # n_iters
    /\ niter > 0
    /\ calls.step = niter

\* C5: update_ema() and the progress update happen once per closure
\* invocation: with an adapter that evaluates the closure N times per step,
\* both counts are N times the number of steps after the run.
C5_EmaAndProgressPerClosure ==
    /\ calls.update_ema = calls.closure
    /\ calls.pbar = calls.closure
    /\ pc \in {"loop", "done"} =>
          /\ calls.update_ema = evals * calls.step
          /\ calls.pbar = evals * calls.step

C5_Witness ==
    /\ pc = "done"
    /\ evals > 1
    /\ calls.step > 1
    /\ calls.update_ema = evals * calls.step
    /\ calls.pbar = evals * calls.step

\* C6: get_target_embeddings is called exactly once, before the first
\* optimizer step, and every get_loss call receives the value it returned.
C6_TargetsOnceAndFrozen ==
    /\ calls.get_target_embeddings <= 1
    /\ calls.step > 0 => calls.get_target_embeddings = 1
    /\ pc = "done" => calls.get_target_embeddings = 1
    /\ lossArgs \subseteq {target_embeddings}
    /\ calls.get_loss > 0 =>
          /\ lossArgs = {target_embeddings}
          /\ target_embeddings # NoEmbeddings

C6_Witness ==
    /\ pc = "done"
    /\ calls.get_loss > 1
    /\ calls.get_target_embeddings = 1
    /\ lossArgs = {target_embeddings}

\* C7: transfer returns the Parameterization's averaged decode, not the raw
\* candidate, and reads it only after all effective steps are done.
C7_ReturnsEmaDecode ==
    /\ pc = "done" => result = pastiche.ema
    /\ calls.decode_average > 0 =>
          /\ calls.decode_average = 1
          /\ calls.step = niter
          /\ pc = "done"

C7_Witness ==
    /\ pc = "done"
    /\ niter > 1
    /\ calls.step = niter
    /\ result = pastiche.ema
    /\ result # pastiche.latent

\* C8: an input whose output path exists when main reaches it is never
\* opened or decoded and nothing is written for it, and main goes on with
\* the inputs after it.
C8_ExistingOutputSkipped ==
    /\ \A i \in DOMAIN existed :
          existed[i] =>
              /\ opened[i] = 0
              /\ shapeReads[i] = 0
              /\ decoded[i] = <<>>
              /\ wrote[i] = 0
    /\ \A p \in DOMAIN fs0 : p \in DOMAIN fs /\ fs[p] = fs0[p]
    /\ vpc = "done" => Len(existed) = Len(video_files)

C8_Witness ==
    /\ vpc = "done"
    /\ Len(video_files) = 2
    /\ existed[1]
    /\ ~existed[2]
    /\ opened[1] = 0
    /\ opened[2] = 1
    /\ Len(yielded[2]) > 1

\* C9: every closure invocation clears the gradients, updates the EMA,
\* decodes the candidate, takes the Perceptor loss against the target
\* embeddings, adds the total-variation term iff tv_weight > 0,
\* backpropagates, reports progress and returns the loss, in that order.
ExpectedTrace(tv) ==
    <<"zero_grad", "update_ema", "pastiche", "get_loss">>
        \o (IF tv > 0 THEN <<"tv_loss">> ELSE <<>>)
        \o <<"backward", "pbar.update">>

C9_ClosureOrder ==
    calls.closure > 0 =>
        /\ trace = ExpectedTrace(tv_weight)
        /\ ("tv" \in loss) <=> (tv_weight > 0)
        /\ {"content", "style"} \subseteq loss
        /\ grad = loss

C9_Witness ==
    /\ calls.closure > 1
    /\ tv_weight > 0
    /\ "tv" \in grad
    /\ trace[2] = "update_ema"
    /\ trace[3] = "pastiche"

\* C10: upscale decodes the frames of a video of L frames for upscaling in
\* source order 0..L-1, each once and only when the upscaling function asks,
\* and writes the upscaled frames in the order they are yielded: L frames
\* in source order for a one-in-one-out upscaler.
C10_FramesInSourceOrder ==
    \A i \in DOMAIN video_files :
        LET out_file == OutFile(out_dir, video_files[i], model_name)
        IN  /\ \A k \in DOMAIN decoded[i] : decoded[i][k] = k - 1
            /\ Len(decoded[i]) <= len_vr[i]
            /\ yielded[i] = SubSeq(decoded[i], 1, Len(yielded[i]))
            /\ opened[i] > 0 => fs[out_file] = yielded[i]
            /\ (vpc = "frames" /\ i = idx) =>
                  /\ Len(decoded[i]) = Len(yielded[i]) + Len(buf)
                  /\ Len(buf) <= MaxBatch
            /\ (opened[i] > 0 /\ i < idx) =>
                  /\ Len(fs[out_file]) = len_vr[i]
                  /\ fs[out_file] = [k \in 1..len_vr[i] |-> k - 1]

C10_Witness ==
    /\ vpc = "done"
    /\ \E i \in DOMAIN video_files :
          /\ len_vr[i] = 3
          /\ fs[OutFile(out_dir, video_files[i], model_name)] = <<0, 1, 2>>
          /\ decoded[i] = <<0, 1, 2>>

====
